---- MODULE Spec2Model ----
(***************************************************************************)
(* convert_list_to_json.py: a converter that writes a list of strings as   *)
(* a JSON array to a file, and the module-level code that builds the       *)
(* hardcoded country list and calls the converter.                         *)
(*                                                                         *)
(* A text (Python str) is a sequence of code points; a bytes value and a   *)
(* file's contents are sequences of integers in 0..255.  A list element is *)
(* a record: Str(s) for a str, BytesObj for a value json cannot serialize. *)
(***************************************************************************)
EXTENDS Integers, Sequences, FiniteSets, TLC

\* Bound of the callers' inputs: list length plus total number of characters.
MaxSize == 3

Str(s) == [kind |-> "str", chars |-> s]
BytesObj == [kind |-> "bytes", chars |-> <<>>]

\* Concatenation of a sequence of sequences (''.join), by halves.
RECURSIVE Flatten(_)
Flatten(ss) ==
  IF Len(ss) = 0 THEN <<>>
  ELSE IF Len(ss) = 1 THEN ss[1]
  ELSE LET h == Len(ss) \div 2
       IN  Flatten(SubSeq(ss, 1, h)) \o Flatten(SubSeq(ss, h + 1, Len(ss)))

----------------------------------------------------------------------------
(* json.dumps(lst, ensure_ascii=False)                                     *)

HexDigit(n) == IF n < 10 THEN 48 + n ELSE 87 + n

\* '\\u{0:04x}'.format(n)
Hex4(n) ==
  <<92, 117, HexDigit((n \div 4096) % 16), HexDigit((n \div 256) % 16),
    HexDigit((n \div 16) % 16), HexDigit(n % 16)>>

\* ensure_ascii=True: every character outside ASCII becomes \uXXXX (a pair of
\* them above U+FFFF).
EscapeCharAscii(c) ==
  CASE c = 92 -> <<92, 92>>
    [] c = 34 -> <<92, 34>>
    [] c = 8  -> <<92, 98>>
    [] c = 12 -> <<92, 102>>
    [] c = 10 -> <<92, 110>>
    [] c = 13 -> <<92, 114>>
    [] c = 9  -> <<92, 116>>
    [] c < 32 /\ c \notin {8, 9, 10, 12, 13} -> Hex4(c)
    [] c >= 32 /\ c < 127 /\ c \notin {34, 92} -> <<c>>
    [] c >= 127 /\ c < 65536 -> Hex4(c)
    [] OTHER -> Hex4(55296 + ((c - 65536) \div 1024))
                \o Hex4(56320 + ((c - 65536) % 1024))

\* A quote left as it is.
EscapeCharNoQuote(c) ==
  CASE c = 92 -> <<92, 92>>
    [] c = 8  -> <<92, 98>>
    [] c = 12 -> <<92, 102>>
    [] c = 10 -> <<92, 110>>
    [] c = 13 -> <<92, 114>>
    [] c = 9  -> <<92, 116>>
    [] c < 32 /\ c \notin {8, 9, 10, 12, 13} -> Hex4(c)
    [] OTHER -> <<c>>

\* ESCAPE_DCT of json.encoder, the replacement of one character of a string
\* when ensure_ascii is False: backslash, quote and the control characters
\* below U+0020 are escaped, everything else is kept.
EscapeChar(c) ==
  CASE c = 92 -> <<92, 92>>
    [] c = 34 -> <<92, 34>>
    [] c = 8  -> <<92, 98>>
    [] c = 12 -> <<92, 102>>
    [] c = 10 -> <<92, 110>>
    [] c = 13 -> <<92, 114>>
    [] c = 9  -> <<92, 116>>
    [] c < 32 /\ c \notin {8, 9, 10, 12, 13} -> Hex4(c)
    [] OTHER -> <<c>>

\* '"' + ESCAPE.sub(replace, s) + '"'
EncodeBasestring(s) ==
  <<34>> \o Flatten([i \in 1..Len(s) |-> EscapeChar(s[i])]) \o <<34>>

ItemSeparatorCompact == <<44>>

\* The default item separator of json.dumps, ', '.
ItemSeparator == <<44, 32>>

\* json.dumps of a list: TypeError for an element json cannot serialize,
\* otherwise '[' + the elements' literals joined by the separator + ']'.
JsonDumps(l) ==
  IF \E i \in 1..Len(l) : l[i].kind # "str"
  THEN [exc |-> "TypeError", val |-> <<>>]
  ELSE [exc |-> "None",
        val |-> <<91>>
                \o Flatten([i \in 1..Len(l) |->
                     (IF i = 1 THEN <<>> ELSE ItemSeparator)
                     \o EncodeBasestring(l[i].chars)])
                \o <<93>>]

----------------------------------------------------------------------------
(* str.encode('utf8')                                                      *)

IsSurrogate(c) == c >= 55296 /\ c <= 57343

Utf8Char(c) ==
  CASE c < 128 -> <<c>>
    [] c >= 128 /\ c < 2048 -> <<192 + (c \div 64), 128 + (c % 64)>>
    [] c >= 2048 /\ c < 65536 ->
         <<224 + (c \div 4096), 128 + ((c \div 64) % 64), 128 + (c % 64)>>
    [] OTHER ->
         <<240 + (c \div 262144), 128 + ((c \div 4096) % 64),
           128 + ((c \div 64) % 64), 128 + (c % 64)>>

\* errors='replace': a surrogate becomes '?' and nothing is raised.
Utf8EncodeReplace(t) ==
  [exc |-> "None",
   val |-> Flatten([i \in 1..Len(t) |->
                      IF IsSurrogate(t[i]) THEN <<63>> ELSE Utf8Char(t[i])])]

\* errors='strict' (the default): a lone surrogate raises UnicodeEncodeError.
Utf8Encode(t) ==
  IF \E i \in 1..Len(t) : IsSurrogate(t[i])
  THEN [exc |-> "UnicodeEncodeError", val |-> <<>>]
  ELSE [exc |-> "None", val |-> Flatten([i \in 1..Len(t) |-> Utf8Char(t[i])])]

----------------------------------------------------------------------------
\* The list literal of lines 12-85, one element per line, as code points.
CountriesLiteral ==
  <<
    Str(<<65, 102, 103, 104, 97, 110, 105, 115, 116, 97, 110>>),  \* Afghanistan
    Str(<<197, 108, 97, 110, 100, 32, 73, 115, 108, 97, 110, 100, 115>>),  \* \xc5land Islands
    Str(<<65, 108, 98, 97, 110, 105, 97>>),  \* Albania
    Str(<<65, 108, 103, 101, 114, 105, 97>>),  \* Algeria
    Str(<<65, 109, 101, 114, 105, 99, 97, 110, 32, 83, 97, 109, 111, 97>>),  \* American Samoa
    Str(<<65, 110, 100, 111, 114, 114, 97>>),  \* Andorra
    Str(<<65, 110, 103, 111, 108, 97>>),  \* Angola
    Str(<<65, 110, 103, 117, 105, 108, 108, 97>>),  \* Anguilla
    Str(<<65, 110, 116, 97, 114, 99, 116, 105, 99, 97>>),  \* Antarctica
    Str(<<65, 110, 116, 105, 103, 117, 97, 32, 97, 110, 100, 32, 66, 97, 114, 98, 117, 100, 97>>),  \* Antigua and Barbuda
    Str(<<65, 114, 103, 101, 110, 116, 105, 110, 97>>),  \* Argentina
    Str(<<65, 114, 109, 101, 110, 105, 97>>),  \* Armenia
    Str(<<65, 114, 117, 98, 97>>),  \* Aruba
    Str(<<65, 117, 115, 116, 114, 97, 108, 105, 97>>),  \* Australia
    Str(<<65, 117, 115, 116, 114, 105, 97>>),  \* Austria
    Str(<<65, 122, 101, 114, 98, 97, 105, 106, 97, 110>>),  \* Azerbaijan
    Str(<<66, 97, 104, 97, 109, 97, 115>>),  \* Bahamas
    Str(<<66, 97, 104, 114, 97, 105, 110>>),  \* Bahrain
    Str(<<66, 97, 110, 103, 108, 97, 100, 101, 115, 104>>),  \* Bangladesh
    Str(<<66, 97, 114, 98, 97, 100, 111, 115>>),  \* Barbados
    Str(<<66, 101, 108, 97, 114, 117, 115>>),  \* Belarus
    Str(<<66, 101, 108, 103, 105, 117, 109>>),  \* Belgium
    Str(<<66, 101, 108, 105, 122, 101>>),  \* Belize
    Str(<<66, 101, 110, 105, 110>>),  \* Benin
    Str(<<66, 101, 114, 109, 117, 100, 97>>),  \* Bermuda
    Str(<<66, 104, 117, 116, 97, 110>>),  \* Bhutan
    Str(<<66, 111, 108, 105, 118, 105, 97, 32, 40, 80, 108, 117, 114, 105, 110, 97, 116, 105, 111, 110, 97, 108, 32, 83, 116, 97, 116, 101, 32, 111, 102, 41>>),  \* Bolivia (Plurinational State of)
    Str(<<66, 111, 110, 97, 105, 114, 101, 44, 32, 83, 105, 110, 116, 32, 69, 117, 115, 116, 97, 116, 105, 117, 115, 32, 97, 110, 100, 32, 83, 97, 98, 97>>),  \* Bonaire, Sint Eustatius and Saba
    Str(<<66, 111, 115, 110, 105, 97, 32, 97, 110, 100, 32, 72, 101, 114, 122, 101, 103, 111, 118, 105, 110, 97>>),  \* Bosnia and Herzegovina
    Str(<<66, 111, 116, 115, 119, 97, 110, 97>>),  \* Botswana
    Str(<<66, 111, 117, 118, 101, 116, 32, 73, 115, 108, 97, 110, 100>>),  \* Bouvet Island
    Str(<<66, 114, 97, 122, 105, 108>>),  \* Brazil
    Str(<<66, 114, 105, 116, 105, 115, 104, 32, 73, 110, 100, 105, 97, 110, 32, 79, 99, 101, 97, 110, 32, 84, 101, 114, 114, 105, 116, 111, 114, 121>>),  \* British Indian Ocean Territory
    Str(<<85, 110, 105, 116, 101, 100, 32, 83, 116, 97, 116, 101, 115, 32, 77, 105, 110, 111, 114, 32, 79, 117, 116, 108, 121, 105, 110, 103, 32, 73, 115, 108, 97, 110, 100, 115>>),  \* United States Minor Outlying Islands
    Str(<<86, 105, 114, 103, 105, 110, 32, 73, 115, 108, 97, 110, 100, 115, 32, 40, 66, 114, 105, 116, 105, 115, 104, 41>>),  \* Virgin Islands (British)
    Str(<<86, 105, 114, 103, 105, 110, 32, 73, 115, 108, 97, 110, 100, 115, 32, 40, 85, 46, 83, 46, 41>>),  \* Virgin Islands (U.S.)
    Str(<<66, 114, 117, 110, 101, 105, 32, 68, 97, 114, 117, 115, 115, 97, 108, 97, 109>>),  \* Brunei Darussalam
    Str(<<66, 117, 108, 103, 97, 114, 105, 97>>),  \* Bulgaria
    Str(<<66, 117, 114, 107, 105, 110, 97, 32, 70, 97, 115, 111>>),  \* Burkina Faso
    Str(<<66, 117, 114, 117, 110, 100, 105>>),  \* Burundi
    Str(<<67, 97, 109, 98, 111, 100, 105, 97>>),  \* Cambodia
    Str(<<67, 97, 109, 101, 114, 111, 111, 110>>),  \* Cameroon
    Str(<<67, 97, 110, 97, 100, 97>>),  \* Canada
    Str(<<67, 97, 98, 111, 32, 86, 101, 114, 100, 101>>),  \* Cabo Verde
    Str(<<67, 97, 121, 109, 97, 110, 32, 73, 115, 108, 97, 110, 100, 115>>),  \* Cayman Islands
    Str(<<67, 101, 110, 116, 114, 97, 108, 32, 65, 102, 114, 105, 99, 97, 110, 32, 82, 101, 112, 117, 98, 108, 105, 99>>),  \* Central African Republic
    Str(<<67, 104, 97, 100>>),  \* Chad
    Str(<<67, 104, 105, 108, 101>>),  \* Chile
    Str(<<67, 104, 105, 110, 97>>),  \* China
    Str(<<67, 104, 114, 105, 115, 116, 109, 97, 115, 32, 73, 115, 108, 97, 110, 100>>),  \* Christmas Island
    Str(<<67, 111, 99, 111, 115, 32, 40, 75, 101, 101, 108, 105, 110, 103, 41, 32, 73, 115, 108, 97, 110, 100, 115>>),  \* Cocos (Keeling) Islands
    Str(<<67, 111, 108, 111, 109, 98, 105, 97>>),  \* Colombia
    Str(<<67, 111, 109, 111, 114, 111, 115>>),  \* Comoros
    Str(<<67, 111, 110, 103, 111>>),  \* Congo
    Str(<<67, 111, 110, 103, 111, 32, 40, 68, 101, 109, 111, 99, 114, 97, 116, 105, 99, 32, 82, 101, 112, 117, 98, 108, 105, 99, 32, 111, 102, 32, 116, 104, 101, 41>>),  \* Congo (Democratic Republic of the)
    Str(<<67, 111, 111, 107, 32, 73, 115, 108, 97, 110, 100, 115>>),  \* Cook Islands
    Str(<<67, 111, 115, 116, 97, 32, 82, 105, 99, 97>>),  \* Costa Rica
    Str(<<67, 114, 111, 97, 116, 105, 97>>),  \* Croatia
    Str(<<67, 117, 98, 97>>),  \* Cuba
    Str(<<67, 117, 114, 97, 231, 97, 111>>),  \* Cura\xe7ao
    Str(<<67, 121, 112, 114, 117, 115>>),  \* Cyprus
    Str(<<67, 122, 101, 99, 104, 32, 82, 101, 112, 117, 98, 108, 105, 99>>),  \* Czech Republic
    Str(<<68, 101, 110, 109, 97, 114, 107>>),  \* Denmark
    Str(<<68, 106, 105, 98, 111, 117, 116, 105>>),  \* Djibouti
    Str(<<68, 111, 109, 105, 110, 105, 99, 97>>),  \* Dominica
    Str(<<68, 111, 109, 105, 110, 105, 99, 97, 110, 32, 82, 101, 112, 117, 98, 108, 105, 99>>),  \* Dominican Republic
    Str(<<69, 99, 117, 97, 100, 111, 114>>),  \* Ecuador
    Str(<<69, 103, 121, 112, 116>>),  \* Egypt
    Str(<<69, 108, 32, 83, 97, 108, 118, 97, 100, 111, 114>>),  \* El Salvador
    Str(<<69, 113, 117, 97, 116, 111, 114, 105, 97, 108, 32, 71, 117, 105, 110, 101, 97>>),  \* Equatorial Guinea
    Str(<<69, 114, 105, 116, 114, 101, 97>>),  \* Eritrea
    Str(<<69, 115, 116, 111, 110, 105, 97>>),  \* Estonia
    Str(<<69, 116, 104, 105, 111, 112, 105, 97>>),  \* Ethiopia
    Str(<<70, 97, 108, 107, 108, 97, 110, 100, 32, 73, 115, 108, 97, 110, 100, 115, 32, 40, 77, 97, 108, 118, 105, 110, 97, 115, 41>>),  \* Falkland Islands (Malvinas)
    Str(<<70, 97, 114, 111, 101, 32, 73, 115, 108, 97, 110, 100, 115>>),  \* Faroe Islands
    Str(<<70, 105, 106, 105>>),  \* Fiji
    Str(<<70, 105, 110, 108, 97, 110, 100>>),  \* Finland
    Str(<<70, 114, 97, 110, 99, 101>>),  \* France
    Str(<<70, 114, 101, 110, 99, 104, 32, 71, 117, 105, 97, 110, 97>>),  \* French Guiana
    Str(<<70, 114, 101, 110, 99, 104, 32, 80, 111, 108, 121, 110, 101, 115, 105, 97>>),  \* French Polynesia
    Str(<<70, 114, 101, 110, 99, 104, 32, 83, 111, 117, 116, 104, 101, 114, 110, 32, 84, 101, 114, 114, 105, 116, 111, 114, 105, 101, 115>>),  \* French Southern Territories
    Str(<<71, 97, 98, 111, 110>>),  \* Gabon
    Str(<<71, 97, 109, 98, 105, 97>>),  \* Gambia
    Str(<<71, 101, 111, 114, 103, 105, 97>>),  \* Georgia
    Str(<<71, 101, 114, 109, 97, 110, 121>>),  \* Germany
    Str(<<71, 104, 97, 110, 97>>),  \* Ghana
    Str(<<71, 105, 98, 114, 97, 108, 116, 97, 114>>),  \* Gibraltar
    Str(<<71, 114, 101, 101, 99, 101>>),  \* Greece
    Str(<<71, 114, 101, 101, 110, 108, 97, 110, 100>>),  \* Greenland
    Str(<<71, 114, 101, 110, 97, 100, 97>>),  \* Grenada
    Str(<<71, 117, 97, 100, 101, 108, 111, 117, 112, 101>>),  \* Guadeloupe
    Str(<<71, 117, 97, 109>>),  \* Guam
    Str(<<71, 117, 97, 116, 101, 109, 97, 108, 97>>),  \* Guatemala
    Str(<<71, 117, 101, 114, 110, 115, 101, 121>>),  \* Guernsey
    Str(<<71, 117, 105, 110, 101, 97>>),  \* Guinea
    Str(<<71, 117, 105, 110, 101, 97, 45, 66, 105, 115, 115, 97, 117>>),  \* Guinea-Bissau
    Str(<<71, 117, 121, 97, 110, 97>>),  \* Guyana
    Str(<<72, 97, 105, 116, 105>>),  \* Haiti
    Str(<<72, 101, 97, 114, 100, 32, 73, 115, 108, 97, 110, 100, 32, 97, 110, 100, 32, 77, 99, 68, 111, 110, 97, 108, 100, 32, 73, 115, 108, 97, 110, 100, 115>>),  \* Heard Island and McDonald Islands
    Str(<<72, 111, 108, 121, 32, 83, 101, 101>>),  \* Holy See
    Str(<<72, 111, 110, 100, 117, 114, 97, 115>>),  \* Honduras
    Str(<<72, 111, 110, 103, 32, 75, 111, 110, 103>>),  \* Hong Kong
    Str(<<72, 117, 110, 103, 97, 114, 121>>),  \* Hungary
    Str(<<73, 99, 101, 108, 97, 110, 100>>),  \* Iceland
    Str(<<73, 110, 100, 105, 97>>),  \* India
    Str(<<73, 110, 100, 111, 110, 101, 115, 105, 97>>),  \* Indonesia
    Str(<<67, 244, 116, 101, 32, 100, 39, 73, 118, 111, 105, 114, 101>>),  \* C\xf4te d'Ivoire
    Str(<<73, 114, 97, 110, 32, 40, 73, 115, 108, 97, 109, 105, 99, 32, 82, 101, 112, 117, 98, 108, 105, 99, 32, 111, 102, 41>>),  \* Iran (Islamic Republic of)
    Str(<<73, 114, 97, 113>>),  \* Iraq
    Str(<<73, 114, 101, 108, 97, 110, 100>>),  \* Ireland
    Str(<<73, 115, 108, 101, 32, 111, 102, 32, 77, 97, 110>>),  \* Isle of Man
    Str(<<73, 115, 114, 97, 101, 108>>),  \* Israel
    Str(<<73, 116, 97, 108, 121>>),  \* Italy
    Str(<<74, 97, 109, 97, 105, 99, 97>>),  \* Jamaica
    Str(<<74, 97, 112, 97, 110>>),  \* Japan
    Str(<<74, 101, 114, 115, 101, 121>>),  \* Jersey
    Str(<<74, 111, 114, 100, 97, 110>>),  \* Jordan
    Str(<<75, 97, 122, 97, 107, 104, 115, 116, 97, 110>>),  \* Kazakhstan
    Str(<<75, 101, 110, 121, 97>>),  \* Kenya
    Str(<<75, 105, 114, 105, 98, 97, 116, 105>>),  \* Kiribati
    Str(<<75, 117, 119, 97, 105, 116>>),  \* Kuwait
    Str(<<75, 121, 114, 103, 121, 122, 115, 116, 97, 110>>),  \* Kyrgyzstan
    Str(<<76, 97, 111, 32, 80, 101, 111, 112, 108, 101, 39, 115, 32, 68, 101, 109, 111, 99, 114, 97, 116, 105, 99, 32, 82, 101, 112, 117, 98, 108, 105, 99>>),  \* Lao People's Democratic Republic
    Str(<<76, 97, 116, 118, 105, 97>>),  \* Latvia
    Str(<<76, 101, 98, 97, 110, 111, 110>>),  \* Lebanon
    Str(<<76, 101, 115, 111, 116, 104, 111>>),  \* Lesotho
    Str(<<76, 105, 98, 101, 114, 105, 97>>),  \* Liberia
    Str(<<76, 105, 98, 121, 97>>),  \* Libya
    Str(<<76, 105, 101, 99, 104, 116, 101, 110, 115, 116, 101, 105, 110>>),  \* Liechtenstein
    Str(<<76, 105, 116, 104, 117, 97, 110, 105, 97>>),  \* Lithuania
    Str(<<76, 117, 120, 101, 109, 98, 111, 117, 114, 103>>),  \* Luxembourg
    Str(<<77, 97, 99, 97, 111>>),  \* Macao
    Str(<<77, 97, 99, 101, 100, 111, 110, 105, 97, 32, 40, 116, 104, 101, 32, 102, 111, 114, 109, 101, 114, 32, 89, 117, 103, 111, 115, 108, 97, 118, 32, 82, 101, 112, 117, 98, 108, 105, 99, 32, 111, 102, 41>>),  \* Macedonia (the former Yugoslav Republic of)
    Str(<<77, 97, 100, 97, 103, 97, 115, 99, 97, 114>>),  \* Madagascar
    Str(<<77, 97, 108, 97, 119, 105>>),  \* Malawi
    Str(<<77, 97, 108, 97, 121, 115, 105, 97>>),  \* Malaysia
    Str(<<77, 97, 108, 100, 105, 118, 101, 115>>),  \* Maldives
    Str(<<77, 97, 108, 105>>),  \* Mali
    Str(<<77, 97, 108, 116, 97>>),  \* Malta
    Str(<<77, 97, 114, 115, 104, 97, 108, 108, 32, 73, 115, 108, 97, 110, 100, 115>>),  \* Marshall Islands
    Str(<<77, 97, 114, 116, 105, 110, 105, 113, 117, 101>>),  \* Martinique
    Str(<<77, 97, 117, 114, 105, 116, 97, 110, 105, 97>>),  \* Mauritania
    Str(<<77, 97, 117, 114, 105, 116, 105, 117, 115>>),  \* Mauritius
    Str(<<77, 97, 121, 111, 116, 116, 101>>),  \* Mayotte
    Str(<<77, 101, 120, 105, 99, 111>>),  \* Mexico
    Str(<<77, 105, 99, 114, 111, 110, 101, 115, 105, 97, 32, 40, 70, 101, 100, 101, 114, 97, 116, 101, 100, 32, 83, 116, 97, 116, 101, 115, 32, 111, 102, 41>>),  \* Micronesia (Federated States of)
    Str(<<77, 111, 108, 100, 111, 118, 97, 32, 40, 82, 101, 112, 117, 98, 108, 105, 99, 32, 111, 102, 41>>),  \* Moldova (Republic of)
    Str(<<77, 111, 110, 97, 99, 111>>),  \* Monaco
    Str(<<77, 111, 110, 103, 111, 108, 105, 97>>),  \* Mongolia
    Str(<<77, 111, 110, 116, 101, 110, 101, 103, 114, 111>>),  \* Montenegro
    Str(<<77, 111, 110, 116, 115, 101, 114, 114, 97, 116>>),  \* Montserrat
    Str(<<77, 111, 114, 111, 99, 99, 111>>),  \* Morocco
    Str(<<77, 111, 122, 97, 109, 98, 105, 113, 117, 101>>),  \* Mozambique
    Str(<<77, 121, 97, 110, 109, 97, 114>>),  \* Myanmar
    Str(<<78, 97, 109, 105, 98, 105, 97>>),  \* Namibia
    Str(<<78, 97, 117, 114, 117>>),  \* Nauru
    Str(<<78, 101, 112, 97, 108>>),  \* Nepal
    Str(<<78, 101, 116, 104, 101, 114, 108, 97, 110, 100, 115>>),  \* Netherlands
    Str(<<78, 101, 119, 32, 67, 97, 108, 101, 100, 111, 110, 105, 97>>),  \* New Caledonia
    Str(<<78, 101, 119, 32, 90, 101, 97, 108, 97, 110, 100>>),  \* New Zealand
    Str(<<78, 105, 99, 97, 114, 97, 103, 117, 97>>),  \* Nicaragua
    Str(<<78, 105, 103, 101, 114>>),  \* Niger
    Str(<<78, 105, 103, 101, 114, 105, 97>>),  \* Nigeria
    Str(<<78, 105, 117, 101>>),  \* Niue
    Str(<<78, 111, 114, 102, 111, 108, 107, 32, 73, 115, 108, 97, 110, 100>>),  \* Norfolk Island
    Str(<<75, 111, 114, 101, 97, 32, 40, 68, 101, 109, 111, 99, 114, 97, 116, 105, 99, 32, 80, 101, 111, 112, 108, 101, 39, 115, 32, 82, 101, 112, 117, 98, 108, 105, 99, 32, 111, 102, 41>>),  \* Korea (Democratic People's Republic of)
    Str(<<78, 111, 114, 116, 104, 101, 114, 110, 32, 77, 97, 114, 105, 97, 110, 97, 32, 73, 115, 108, 97, 110, 100, 115>>),  \* Northern Mariana Islands
    Str(<<78, 111, 114, 119, 97, 121>>),  \* Norway
    Str(<<79, 109, 97, 110>>),  \* Oman
    Str(<<80, 97, 107, 105, 115, 116, 97, 110>>),  \* Pakistan
    Str(<<80, 97, 108, 97, 117>>),  \* Palau
    Str(<<80, 97, 108, 101, 115, 116, 105, 110, 101, 44, 32, 83, 116, 97, 116, 101, 32, 111, 102>>),  \* Palestine, State of
    Str(<<80, 97, 110, 97, 109, 97>>),  \* Panama
    Str(<<80, 97, 112, 117, 97, 32, 78, 101, 119, 32, 71, 117, 105, 110, 101, 97>>),  \* Papua New Guinea
    Str(<<80, 97, 114, 97, 103, 117, 97, 121>>),  \* Paraguay
    Str(<<80, 101, 114, 117>>),  \* Peru
    Str(<<80, 104, 105, 108, 105, 112, 112, 105, 110, 101, 115>>),  \* Philippines
    Str(<<80, 105, 116, 99, 97, 105, 114, 110>>),  \* Pitcairn
    Str(<<80, 111, 108, 97, 110, 100>>),  \* Poland
    Str(<<80, 111, 114, 116, 117, 103, 97, 108>>),  \* Portugal
    Str(<<80, 117, 101, 114, 116, 111, 32, 82, 105, 99, 111>>),  \* Puerto Rico
    Str(<<81, 97, 116, 97, 114>>),  \* Qatar
    Str(<<82, 101, 112, 117, 98, 108, 105, 99, 32, 111, 102, 32, 75, 111, 115, 111, 118, 111>>),  \* Republic of Kosovo
    Str(<<82, 233, 117, 110, 105, 111, 110>>),  \* R\xe9union
    Str(<<82, 111, 109, 97, 110, 105, 97>>),  \* Romania
    Str(<<82, 117, 115, 115, 105, 97, 110, 32, 70, 101, 100, 101, 114, 97, 116, 105, 111, 110>>),  \* Russian Federation
    Str(<<82, 119, 97, 110, 100, 97>>),  \* Rwanda
    Str(<<83, 97, 105, 110, 116, 32, 66, 97, 114, 116, 104, 233, 108, 101, 109, 121>>),  \* Saint Barth\xe9lemy
    Str(<<83, 97, 105, 110, 116, 32, 72, 101, 108, 101, 110, 97, 44, 32, 65, 115, 99, 101, 110, 115, 105, 111, 110, 32, 97, 110, 100, 32, 84, 114, 105, 115, 116, 97, 110, 32, 100, 97, 32, 67, 117, 110, 104, 97>>),  \* Saint Helena, Ascension and Tristan da Cunha
    Str(<<83, 97, 105, 110, 116, 32, 75, 105, 116, 116, 115, 32, 97, 110, 100, 32, 78, 101, 118, 105, 115>>),  \* Saint Kitts and Nevis
    Str(<<83, 97, 105, 110, 116, 32, 76, 117, 99, 105, 97>>),  \* Saint Lucia
    Str(<<83, 97, 105, 110, 116, 32, 77, 97, 114, 116, 105, 110, 32, 40, 70, 114, 101, 110, 99, 104, 32, 112, 97, 114, 116, 41>>),  \* Saint Martin (French part)
    Str(<<83, 97, 105, 110, 116, 32, 80, 105, 101, 114, 114, 101, 32, 97, 110, 100, 32, 77, 105, 113, 117, 101, 108, 111, 110>>),  \* Saint Pierre and Miquelon
    Str(<<83, 97, 105, 110, 116, 32, 86, 105, 110, 99, 101, 110, 116, 32, 97, 110, 100, 32, 116, 104, 101, 32, 71, 114, 101, 110, 97, 100, 105, 110, 101, 115>>),  \* Saint Vincent and the Grenadines
    Str(<<83, 97, 109, 111, 97>>),  \* Samoa
    Str(<<83, 97, 110, 32, 77, 97, 114, 105, 110, 111>>),  \* San Marino
    Str(<<83, 97, 111, 32, 84, 111, 109, 101, 32, 97, 110, 100, 32, 80, 114, 105, 110, 99, 105, 112, 101>>),  \* Sao Tome and Principe
    Str(<<83, 97, 117, 100, 105, 32, 65, 114, 97, 98, 105, 97>>),  \* Saudi Arabia
    Str(<<83, 101, 110, 101, 103, 97, 108>>),  \* Senegal
    Str(<<83, 101, 114, 98, 105, 97>>),  \* Serbia
    Str(<<83, 101, 121, 99, 104, 101, 108, 108, 101, 115>>),  \* Seychelles
    Str(<<83, 105, 101, 114, 114, 97, 32, 76, 101, 111, 110, 101>>),  \* Sierra Leone
    Str(<<83, 105, 110, 103, 97, 112, 111, 114, 101>>),  \* Singapore
    Str(<<83, 105, 110, 116, 32, 77, 97, 97, 114, 116, 101, 110, 32, 40, 68, 117, 116, 99, 104, 32, 112, 97, 114, 116, 41>>),  \* Sint Maarten (Dutch part)
    Str(<<83, 108, 111, 118, 97, 107, 105, 97>>),  \* Slovakia
    Str(<<83, 108, 111, 118, 101, 110, 105, 97>>),  \* Slovenia
    Str(<<83, 111, 108, 111, 109, 111, 110, 32, 73, 115, 108, 97, 110, 100, 115>>),  \* Solomon Islands
    Str(<<83, 111, 109, 97, 108, 105, 97>>),  \* Somalia
    Str(<<83, 111, 117, 116, 104, 32, 65, 102, 114, 105, 99, 97>>),  \* South Africa
    Str(<<83, 111, 117, 116, 104, 32, 71, 101, 111, 114, 103, 105, 97, 32, 97, 110, 100, 32, 116, 104, 101, 32, 83, 111, 117, 116, 104, 32, 83, 97, 110, 100, 119, 105, 99, 104, 32, 73, 115, 108, 97, 110, 100, 115>>),  \* South Georgia and the South Sandwich Islands
    Str(<<75, 111, 114, 101, 97, 32, 40, 82, 101, 112, 117, 98, 108, 105, 99, 32, 111, 102, 41>>),  \* Korea (Republic of)
    Str(<<83, 111, 117, 116, 104, 32, 83, 117, 100, 97, 110>>),  \* South Sudan
    Str(<<83, 112, 97, 105, 110>>),  \* Spain
    Str(<<83, 114, 105, 32, 76, 97, 110, 107, 97>>),  \* Sri Lanka
    Str(<<83, 117, 100, 97, 110>>),  \* Sudan
    Str(<<83, 117, 114, 105, 110, 97, 109, 101>>),  \* Suriname
    Str(<<83, 118, 97, 108, 98, 97, 114, 100, 32, 97, 110, 100, 32, 74, 97, 110, 32, 77, 97, 121, 101, 110>>),  \* Svalbard and Jan Mayen
    Str(<<83, 119, 97, 122, 105, 108, 97, 110, 100>>),  \* Swaziland
    Str(<<83, 119, 101, 100, 101, 110>>),  \* Sweden
    Str(<<83, 119, 105, 116, 122, 101, 114, 108, 97, 110, 100>>),  \* Switzerland
    Str(<<83, 121, 114, 105, 97, 110, 32, 65, 114, 97, 98, 32, 82, 101, 112, 117, 98, 108, 105, 99>>),  \* Syrian Arab Republic
    Str(<<84, 97, 105, 119, 97, 110>>),  \* Taiwan
    Str(<<84, 97, 106, 105, 107, 105, 115, 116, 97, 110>>),  \* Tajikistan
    Str(<<84, 97, 110, 122, 97, 110, 105, 97, 44, 32, 85, 110, 105, 116, 101, 100, 32, 82, 101, 112, 117, 98, 108, 105, 99, 32, 111, 102>>),  \* Tanzania, United Republic of
    Str(<<84, 104, 97, 105, 108, 97, 110, 100>>),  \* Thailand
    Str(<<84, 105, 109, 111, 114, 45, 76, 101, 115, 116, 101>>),  \* Timor-Leste
    Str(<<84, 111, 103, 111>>),  \* Togo
    Str(<<84, 111, 107, 101, 108, 97, 117>>),  \* Tokelau
    Str(<<84, 111, 110, 103, 97>>),  \* Tonga
    Str(<<84, 114, 105, 110, 105, 100, 97, 100, 32, 97, 110, 100, 32, 84, 111, 98, 97, 103, 111>>),  \* Trinidad and Tobago
    Str(<<84, 117, 110, 105, 115, 105, 97>>),  \* Tunisia
    Str(<<84, 117, 114, 107, 101, 121>>),  \* Turkey
    Str(<<84, 117, 114, 107, 109, 101, 110, 105, 115, 116, 97, 110>>),  \* Turkmenistan
    Str(<<84, 117, 114, 107, 115, 32, 97, 110, 100, 32, 67, 97, 105, 99, 111, 115, 32, 73, 115, 108, 97, 110, 100, 115>>),  \* Turks and Caicos Islands
    Str(<<84, 117, 118, 97, 108, 117>>),  \* Tuvalu
    Str(<<85, 103, 97, 110, 100, 97>>),  \* Uganda
    Str(<<85, 107, 114, 97, 105, 110, 101>>),  \* Ukraine
    Str(<<85, 110, 105, 116, 101, 100, 32, 65, 114, 97, 98, 32, 69, 109, 105, 114, 97, 116, 101, 115>>),  \* United Arab Emirates
    Str(<<85, 110, 105, 116, 101, 100, 32, 75, 105, 110, 103, 100, 111, 109, 32, 111, 102, 32, 71, 114, 101, 97, 116, 32, 66, 114, 105, 116, 97, 105, 110, 32, 97, 110, 100, 32, 78, 111, 114, 116, 104, 101, 114, 110, 32, 73, 114, 101, 108, 97, 110, 100>>),  \* United Kingdom of Great Britain and Northern Ireland
    Str(<<85, 110, 105, 116, 101, 100, 32, 83, 116, 97, 116, 101, 115, 32, 111, 102, 32, 65, 109, 101, 114, 105, 99, 97>>),  \* United States of America
    Str(<<85, 114, 117, 103, 117, 97, 121>>),  \* Uruguay
    Str(<<85, 122, 98, 101, 107, 105, 115, 116, 97, 110>>),  \* Uzbekistan
    Str(<<86, 97, 110, 117, 97, 116, 117>>),  \* Vanuatu
    Str(<<86, 101, 110, 101, 122, 117, 101, 108, 97, 32, 40, 66, 111, 108, 105, 118, 97, 114, 105, 97, 110, 32, 82, 101, 112, 117, 98, 108, 105, 99, 32, 111, 102, 41>>),  \* Venezuela (Bolivarian Republic of)
    Str(<<86, 105, 101, 116, 32, 78, 97, 109>>),  \* Viet Nam
    Str(<<87, 97, 108, 108, 105, 115, 32, 97, 110, 100, 32, 70, 117, 116, 117, 110, 97>>),  \* Wallis and Futuna
    Str(<<87, 101, 115, 116, 101, 114, 110, 32, 83, 97, 104, 97, 114, 97>>),  \* Western Sahara
    Str(<<89, 101, 109, 101, 110>>),  \* Yemen
    Str(<<90, 97, 109, 98, 105, 97>>),  \* Zambia
    Str(<<90, 105, 109, 98, 97, 98, 119, 101>>)  \* Zimbabwe
  >>

----------------------------------------------------------------------------
(* The file system and the program's state                                 *)

NoFile == [exists |-> FALSE, data |-> <<>>]
File(d) == [exists |-> TRUE, data |-> d]

\* filename='countries.json', the parameter's default.
DefaultFilename == "countries.json"
\* The path of the module-level call.
ScriptFilename == "exercises/countries.json"
\* A call that leaves the filename out.
Omitted == "<omitted>"

Paths ==
  {DefaultFilename, ScriptFilename, "nodir/out.json", "ro/out.json", "notes.txt"}
Dirs == {".", "exercises", "nodir", "ro"}

DirOf(p) ==
  CASE p = ScriptFilename -> "exercises"
    [] p = "nodir/out.json" -> "nodir"
    [] p = "ro/out.json" -> "ro"
    [] OTHER -> "."

OldContents == <<111, 108, 100, 32, 100, 97, 116, 97, 10>>

VARIABLES
  fs,         \* path -> NoFile or File(bytes)
  dirState,   \* directory -> "ok", "missing" or "readonly"
  handles,    \* the paths with an open file object
  pc,         \* where convert_list_to_json is: "idle" when control is outside
  lst,        \* the parameter lst of the running call (<<>> outside a call)
  filename,   \* the parameter filename of the running or the latest call
  text,       \* the value of json.dumps(...) on line 7
  data,       \* the value of .encode('utf8') on line 7
  exc,        \* the exception in flight inside the with block, or "None"
  prior,      \* what the destination held when it was opened
  result,     \* how the latest call ended: "returned" or the exception
  name,       \* __name__
  countries,  \* the module's global of that name
  mpc,        \* where the module-level code is
  mcalls,     \* calls of the converter made by the module-level code
  status      \* how the module-level code ended

vars ==
  <<fs, dirState, handles, pc, lst, filename, text, data, exc, prior, result,
    name, countries, mpc, mcalls, status>>

fnVars == <<pc, lst, filename, text, data, exc, prior, result, fs, handles>>
moduleVars == <<name, countries, mpc, mcalls, status>>

Undefined == [defined |-> FALSE, val |-> <<>>]
Defined(v) == [defined |-> TRUE, val |-> v]

----------------------------------------------------------------------------
(* convert_list_to_json(lst, filename='countries.json')                    *)

\* open() ignores the parameter and always takes the default name.
TargetDefault(fn) == DefaultFilename

\* The path line 6 opens: the parameter filename.
Target(fn) == fn

\* The directories are made on the way, as os.makedirs would.
OpenErrorMakeDirs(p) ==
  IF dirState[DirOf(p)] = "readonly" /\ ~fs[p].exists
  THEN "PermissionError" ELSE "None"

\* What open(p, 'wb') raises.
OpenError(p) ==
  IF dirState[DirOf(p)] = "missing" THEN "FileNotFoundError"
  ELSE IF dirState[DirOf(p)] = "readonly" /\ ~fs[p].exists
  THEN "PermissionError" ELSE "None"

\* Mode 'ab': what is there stays, the writes go to the end.
OpenModeAppend(f) == f.data

\* Mode 'wb': the file is created or truncated to nothing.
OpenMode(f) == <<>>

\* The handle is closed on the normal path only, as without a with block.
ExitHandlesNoWith(hs, p, e) == IF e = "None" THEN hs \ {p} ELSE hs

\* The with block's __exit__ closes the file on every path.
ExitHandles(hs, p, e) == hs \ {p}

\* The new length against the old one, for an input that encodes.
Longer(f, l) ==
  /\ JsonDumps(l).exc = "None"
  /\ Utf8Encode(JsonDumps(l).val).exc = "None"
  /\ Len(f.data) > Len(Utf8Encode(JsonDumps(l).val).val)

\* Entry with the parameters bound, and line 6: open(filename, 'wb').
OpenFile(l, fn) ==
  LET p == Target(fn)
      e == OpenError(p)
  IN  /\ pc = "idle"
      /\ filename' = fn
      /\ text' = <<>>
      /\ data' = <<>>
      /\ exc' = "None"
      /\ UNCHANGED dirState
      /\ IF e # "None"
         THEN /\ pc' = "idle"
              /\ lst' = <<>>
              /\ result' = e
              /\ prior' = "none"
              /\ UNCHANGED <<fs, handles>>
         ELSE /\ pc' = "dumps"
              /\ lst' = l
              /\ result' = "none"
              /\ prior' = IF ~fs[p].exists THEN "absent"
                          ELSE IF Longer(fs[p], l) THEN "longer" ELSE "present"
              /\ fs' = [fs EXCEPT ![p] = File(OpenMode(fs[p]))]
              /\ handles' = handles \cup {p}

\* Line 7: json.dumps(lst, ensure_ascii=False)
Dumps ==
  /\ pc = "dumps"
  /\ LET r == JsonDumps(lst)
     IN  IF r.exc # "None"
         THEN /\ exc' = r.exc
              /\ pc' = "exit"
              /\ UNCHANGED text
         ELSE /\ text' = r.val
              /\ pc' = "encode"
              /\ UNCHANGED exc
  /\ UNCHANGED <<fs, dirState, handles, lst, filename, data, prior, result>>
  /\ UNCHANGED moduleVars

\* Line 7: .encode('utf8')
Encode ==
  /\ pc = "encode"
  /\ LET r == Utf8Encode(text)
     IN  IF r.exc # "None"
         THEN /\ exc' = r.exc
              /\ pc' = "exit"
              /\ UNCHANGED data
         ELSE /\ data' = r.val
              /\ pc' = "write"
              /\ UNCHANGED exc
  /\ UNCHANGED <<fs, dirState, handles, lst, filename, text, prior, result>>
  /\ UNCHANGED moduleVars

\* Line 7: f.write(...).  The bytes go to the end of what the file holds
\* since it was opened; the device may run full after part of them.
Write ==
  /\ pc = "write"
  /\ LET p == Target(filename)
     IN  \E full \in BOOLEAN :
           IF full
           THEN /\ fs' = [fs EXCEPT ![p] =
                       File(fs[p].data \o SubSeq(data, 1, Len(data) \div 2))]
                /\ exc' = "OSError"
           ELSE /\ fs' = [fs EXCEPT ![p] = File(fs[p].data \o data)]
                /\ UNCHANGED exc
  /\ pc' = "exit"
  /\ UNCHANGED <<dirState, handles, lst, filename, text, data, prior, result>>
  /\ UNCHANGED moduleVars

\* The end of the with block: the file is closed, and the call returns None
\* or the exception goes on to the caller.  Nothing catches it.
Exit ==
  /\ pc = "exit"
  /\ handles' = ExitHandles(handles, Target(filename), exc)
  /\ result' = IF exc = "None" THEN "returned" ELSE exc
  /\ pc' = "idle"
  /\ lst' = <<>>
  /\ text' = <<>>
  /\ data' = <<>>
  /\ exc' = "None"
  /\ prior' = "none"
  /\ UNCHANGED <<fs, dirState, filename>>
  /\ UNCHANGED moduleVars

----------------------------------------------------------------------------
(* Callers of the converter with inputs of their own                       *)

\* Quote, backslash, U+0001, A-ring (2 bytes in UTF-8) and the lone surrogate
\* U+D800.
Alphabet == {34, 92, 1, 197, 55296}

RECURSIVE Texts(_)
Texts(n) ==
  IF n = 0 THEN {<<>>}
  ELSE {Append(s, c) : s \in Texts(n - 1), c \in Alphabet}

Elements(n) ==
  {Str(s) : s \in Texts(n)} \cup (IF n = 0 THEN {BytesObj} ELSE {})

\* The lists whose length plus number of characters is n.
RECURSIVE ListsOfSize(_)
ListsOfSize(n) ==
  IF n = 0 THEN {<<>>}
  ELSE UNION {{<<e>> \o r : e \in Elements(c), r \in ListsOfSize(n - 1 - c)} :
                c \in 0..(n - 1)}

\* ["Afghanistan", "Albania"]
ScenarioInput ==
  <<Str(<<65, 102, 103, 104, 97, 110, 105, 115, 116, 97, 110>>),
    Str(<<65, 108, 98, 97, 110, 105, 97>>)>>

\* ["A", "\u00c5"]
ExampleInput == <<Str(<<65>>), Str(<<197>>)>>

\* ["\u20ac\n", "\U0001f600\x7f", "\\u00c5"]: 3 and 4 bytes in UTF-8, a
\* newline, DEL, and the six characters of an escape.
WideInput ==
  <<Str(<<8364, 10>>), Str(<<128512, 127>>),
    Str(<<92, 117, 48, 48, 99, 53>>)>>

Inputs ==
  UNION {ListsOfSize(n) : n \in 0..MaxSize}
    \cup {ScenarioInput, ExampleInput, WideInput}

FilenameArgs == {Omitted, DefaultFilename, "nodir/out.json", "ro/out.json"}

\* A call from outside the module, with or without a filename.
Call(l, fn) ==
  /\ mpc = "external"
  /\ OpenFile(l, IF fn = Omitted THEN DefaultFilename ELSE fn)
  /\ UNCHANGED moduleVars

----------------------------------------------------------------------------
(* The module-level code                                                   *)

\* Lines 1-7: import json and the def.
ModuleStart ==
  /\ mpc = "start"
  /\ mpc' = "guard"
  /\ UNCHANGED <<name, countries, mcalls, status, dirState>>
  /\ UNCHANGED fnVars

\* Line 10: if __name__ == '__main__':
Guard ==
  /\ mpc = "guard"
  /\ mpc' = IF name = "__main__" THEN "build" ELSE "call"
  /\ UNCHANGED <<name, countries, mcalls, status, dirState>>
  /\ UNCHANGED fnVars

\* Lines 12-85: countries = [...]
Build ==
  /\ mpc = "build"
  /\ countries' = Defined(CountriesLiteral)
  /\ mpc' = "call"
  /\ UNCHANGED <<name, mcalls, status, dirState>>
  /\ UNCHANGED fnVars

\* Line 87, outside the if: convert_list_to_json(countries, '...').  The
\* arguments are evaluated first; an unbound global raises NameError.
ModuleCall ==
  /\ mpc = "call"
  /\ IF ~countries.defined
     THEN /\ mpc' = "exited"
          /\ status' = "NameError"
          /\ UNCHANGED <<mcalls, dirState>>
          /\ UNCHANGED fnVars
     ELSE /\ OpenFile(countries.val, ScriptFilename)
          /\ mcalls' = mcalls + 1
          /\ mpc' = "incall"
          /\ UNCHANGED status
  /\ UNCHANGED <<name, countries>>

\* The call is over: the interpreter ends, with the traceback of an exception
\* nothing caught.
ModuleEnd ==
  /\ mpc = "incall"
  /\ pc = "idle"
  /\ mpc' = "exited"
  /\ status' = IF result = "returned" THEN "ok" ELSE result
  /\ UNCHANGED <<name, countries, mcalls, dirState>>
  /\ UNCHANGED fnVars

----------------------------------------------------------------------------
(* Specifications                                                          *)

FnInit ==
  /\ handles = {}
  /\ pc = "idle"
  /\ lst = <<>>
  /\ filename = DefaultFilename
  /\ text = <<>>
  /\ data = <<>>
  /\ exc = "None"
  /\ prior = "none"
  /\ result = "none"

\* The converter under callers of their own.
Init ==
  /\ FnInit
  /\ dirState = [d \in Dirs |->
                   CASE d = "nodir" -> "missing" [] d = "ro" -> "readonly"
                     [] OTHER -> "ok"]
  /\ \E f \in {NoFile, File(OldContents)} :
       fs = [p \in Paths |->
               IF p = DefaultFilename THEN f
               ELSE IF p = "notes.txt" THEN File(OldContents) ELSE NoFile]
  /\ name = "caller"
  /\ countries = Undefined
  /\ mpc = "external"
  /\ mcalls = 0
  /\ status = "none"

Next ==
  \/ \E l \in Inputs, fn \in FilenameArgs : Call(l, fn)
  \/ Dumps
  \/ Encode
  \/ Write
  \/ Exit

Spec == Init /\ [][Next]_vars

\* The file run as a script or imported.
ModuleInit ==
  /\ FnInit
  /\ \E x \in {"ok", "missing", "readonly"} :
       dirState = [d \in Dirs |->
                     CASE d = "nodir" -> "missing" [] d = "ro" -> "readonly"
                       [] d = "exercises" -> x [] OTHER -> "ok"]
  /\ \E f \in {NoFile, File(<<>>), File(OldContents)},
        g \in {NoFile, File(OldContents)}, h \in {NoFile, File(OldContents)} :
       /\ f.exists => dirState["exercises"] = "ok"
       /\ fs = [p \in Paths |->
                  IF p = ScriptFilename THEN f
                  ELSE IF p = DefaultFilename THEN g
                  ELSE IF p = "notes.txt" THEN h ELSE NoFile]
  /\ name \in {"__main__", "convert_list_to_json"}
  /\ countries = Undefined
  /\ mpc = "start"
  /\ mcalls = 0
  /\ status = "none"

ModuleNext ==
  \/ ModuleStart
  \/ Guard
  \/ Build
  \/ ModuleCall
  \/ Dumps
  \/ Encode
  \/ Write
  \/ Exit
  \/ ModuleEnd

ModuleSpec == ModuleInit /\ [][ModuleNext]_vars

----------------------------------------------------------------------------
(* Reading a file back: bytes.decode('utf8') and json.loads, and the text  *)
(* of a JSON array of strings, for the properties below                    *)

Fail == [ok |-> FALSE, val |-> <<>>]

IsCont(x) == x >= 128 /\ x < 192

RECURSIVE Dec(_, _, _)
Dec(b, i, acc) ==
  IF i > Len(b) THEN [ok |-> TRUE, val |-> acc]
  ELSE LET x == b[i]
           n == IF x < 128 THEN 1
                ELSE IF x >= 192 /\ x < 224 THEN 2
                ELSE IF x >= 224 /\ x < 240 THEN 3
                ELSE IF x >= 240 /\ x < 248 THEN 4 ELSE 0
       IN  IF n = 0 \/ i + n - 1 > Len(b) THEN Fail
           ELSE IF \E j \in 1..(n - 1) : ~IsCont(b[i + j]) THEN Fail
           ELSE LET cp ==
                      CASE n = 1 -> x
                        [] n = 2 -> (x - 192) * 64 + (b[i + 1] - 128)
                        [] n = 3 -> (x - 224) * 4096 + (b[i + 1] - 128) * 64
                                    + (b[i + 2] - 128)
                        [] n = 4 -> (x - 240) * 262144
                                    + (b[i + 1] - 128) * 4096
                                    + (b[i + 2] - 128) * 64 + (b[i + 3] - 128)
                IN  Dec(b, i + n, Append(acc, cp))

Utf8Decode(b) == Dec(b, 1, <<>>)

HexVal(c) ==
  IF c >= 48 /\ c <= 57 THEN c - 48
  ELSE IF c >= 97 /\ c <= 102 THEN c - 87
  ELSE IF c >= 65 /\ c <= 70 THEN c - 55 ELSE -1

\* The value of the four hex digits at t[i..i+3], or -1.
Hex4Val(t, i) ==
  IF i + 3 > Len(t) \/ \E j \in 0..3 : HexVal(t[i + j]) = -1 THEN -1
  ELSE HexVal(t[i]) * 4096 + HexVal(t[i + 1]) * 256 + HexVal(t[i + 2]) * 16
       + HexVal(t[i + 3])

Unescape(c) ==
  CASE c = 34 -> 34 [] c = 92 -> 92 [] c = 47 -> 47 [] c = 98 -> 8
    [] c = 102 -> 12 [] c = 110 -> 10 [] c = 114 -> 13 [] c = 116 -> 9
    [] OTHER -> -1

\* A JSON string from t[i], the character after its opening quote.
RECURSIVE LoadString(_, _, _)
LoadString(t, i, acc) ==
  IF i > Len(t) THEN [ok |-> FALSE, val |-> <<>>, next |-> i]
  ELSE IF t[i] = 34 THEN [ok |-> TRUE, val |-> acc, next |-> i + 1]
  ELSE IF t[i] = 92
  THEN IF i + 1 > Len(t) THEN [ok |-> FALSE, val |-> <<>>, next |-> i]
       ELSE IF t[i + 1] = 117
       THEN IF Hex4Val(t, i + 2) = -1
            THEN [ok |-> FALSE, val |-> <<>>, next |-> i]
            ELSE LoadString(t, i + 6, Append(acc, Hex4Val(t, i + 2)))
       ELSE IF Unescape(t[i + 1]) = -1
       THEN [ok |-> FALSE, val |-> <<>>, next |-> i]
       ELSE LoadString(t, i + 2, Append(acc, Unescape(t[i + 1])))
  ELSE IF t[i] < 32 THEN [ok |-> FALSE, val |-> <<>>, next |-> i]
  ELSE LoadString(t, i + 1, Append(acc, t[i]))

IsSpace(c) == c \in {32, 9, 10, 13}

RECURSIVE SkipSpace(_, _)
SkipSpace(t, i) ==
  IF i <= Len(t) /\ IsSpace(t[i]) THEN SkipSpace(t, i + 1) ELSE i

\* The elements of an array from t[i], where an element must start.
RECURSIVE LoadItems(_, _, _)
LoadItems(t, i, acc) ==
  IF i > Len(t) \/ t[i] # 34 THEN Fail
  ELSE LET s == LoadString(t, i + 1, <<>>)
           j == SkipSpace(t, s.next)
       IN  IF ~s.ok \/ j > Len(t) THEN Fail
           ELSE IF t[j] = 44
           THEN LoadItems(t, SkipSpace(t, j + 1), Append(acc, Str(s.val)))
           ELSE IF t[j] = 93 /\ SkipSpace(t, j + 1) > Len(t)
           THEN [ok |-> TRUE, val |-> Append(acc, Str(s.val))]
           ELSE Fail

\* json.loads of a document that is an array of strings.
JsonLoads(t) ==
  LET i == SkipSpace(t, 1)
  IN  IF i > Len(t) \/ t[i] # 91 THEN Fail
      ELSE LET j == SkipSpace(t, i + 1)
           IN  IF j <= Len(t) /\ t[j] = 93
               THEN IF SkipSpace(t, j + 1) > Len(t)
                    THEN [ok |-> TRUE, val |-> <<>>] ELSE Fail
               ELSE LoadItems(t, j, <<>>)

\* The code points written as \uXXXX escapes in the text t.
RECURSIVE UEscapes(_, _)
UEscapes(t, i) ==
  IF i > Len(t) THEN {}
  ELSE IF t[i] # 92 THEN UEscapes(t, i + 1)
  ELSE IF i + 1 <= Len(t) /\ t[i + 1] = 117
  THEN {Hex4Val(t, i + 2)} \cup UEscapes(t, i + 6)
  ELSE UEscapes(t, i + 2)

Count(s, c) == Cardinality({i \in 1..Len(s) : s[i] = c})
AllChars(l) == Flatten([i \in 1..Len(l) |-> l[i].chars])
AllStr(l) == \A i \in 1..Len(l) : l[i].kind = "str"

\* A string between double quotes: quote and backslash behind a backslash,
\* the control characters in their short form or as \u00XX, the rest as is.
RECURSIVE Quoted(_, _)
Quoted(s, i) ==
  IF i > Len(s) THEN <<34>>
  ELSE (IF s[i] \in {34, 92} THEN <<92, s[i]>>
        ELSE IF s[i] = 10 THEN <<92, 110>>
        ELSE IF s[i] = 13 THEN <<92, 114>>
        ELSE IF s[i] = 9 THEN <<92, 116>>
        ELSE IF s[i] = 8 THEN <<92, 98>>
        ELSE IF s[i] = 12 THEN <<92, 102>>
        ELSE IF s[i] < 32
        THEN <<92, 117, 48, 48, HexDigit(s[i] \div 16), HexDigit(s[i] % 16)>>
        ELSE <<s[i]>>) \o Quoted(s, i + 1)

\* '[' + the quoted elements from the i-th on, ', ' between them + ']'.
RECURSIVE ArrayFrom(_, _)
ArrayFrom(l, i) ==
  IF i > Len(l) THEN <<93>>
  ELSE (IF i = 1 THEN <<>> ELSE <<44, 32>>) \o <<34>> \o Quoted(l[i].chars, 1)
       \o ArrayFrom(l, i + 1)

ArrayLiteral(l) == <<91>> \o ArrayFrom(l, 1)

\* The step on which a call that raised nothing returns.
Completes == pc = "exit" /\ exc = "None" /\ pc' = "idle"

----------------------------------------------------------------------------
(* Properties                                                              *)

\* C1: when a call completes, the destination file decoded as UTF-8 and
\* parsed as JSON gives the input sequence, element by element in order.
RoundTrip ==
  [][Completes =>
       LET d == Utf8Decode(fs'[filename].data)
       IN  d.ok /\ JsonLoads(d.val) = [ok |-> TRUE, val |-> lst]]_vars

\* A completed call of WideInput left a file that parses back to it.
RoundTripWitness ==
  /\ pc = "idle"
  /\ result = "returned"
  /\ JsonLoads(Utf8Decode(fs[filename].data).val) = [ok |-> TRUE, val |-> WideInput]

\* C2: when a call completes, the file holds exactly the encoding of that
\* call's input, whatever it held before.
Overwrites ==
  [][Completes =>
       fs'[filename] = File(Utf8Encode(JsonDumps(lst).val).val)]_vars

\* The empty list has been written over longer contents of an earlier call.
OverwritesWitness ==
  /\ pc = "exit"
  /\ exc = "None"
  /\ prior = "longer"
  /\ lst = <<>>
  /\ fs[filename] = File(<<91, 93>>)
  /\ result = "none"

\* C3: when a call completes, the text in the file is '[', the double-quoted
\* elements in order with ', ' between them, and ']', and nothing else; the
\* empty list gives '[]' and ["Afghanistan", "Albania"] gives that text.
ExactText ==
  [][Completes =>
       /\ Utf8Decode(fs'[filename].data) = [ok |-> TRUE, val |-> ArrayLiteral(lst)]
       /\ lst = <<>> => fs'[filename].data = <<91, 93>>
       /\ lst = ScenarioInput =>
            fs'[filename].data =
              <<91, 34, 65, 102, 103, 104, 97, 110, 105, 115, 116, 97, 110, 34,
                44, 32, 34, 65, 108, 98, 97, 110, 105, 97, 34, 93>>]_vars

\* The scenario's call has completed and left its text.
ExactTextWitness ==
  /\ pc = "idle"
  /\ result = "returned"
  /\ fs[filename].data =
       <<91, 34, 65, 102, 103, 104, 97, 110, 105, 115, 116, 97, 110, 34,
         44, 32, 34, 65, 108, 98, 97, 110, 105, 97, 34, 93>>

\* C4: when a call completes, every character outside ASCII of the input is
\* in the output as often as in the input, and every \uXXXX escape of the
\* output stands for a control character below U+0020.
RawNonAscii ==
  [][Completes =>
       LET out == Utf8Decode(fs'[filename].data).val
       IN  /\ \A i \in 1..Len(AllChars(lst)) :
                AllChars(lst)[i] >= 128 =>
                  Count(out, AllChars(lst)[i]) = Count(AllChars(lst), AllChars(lst)[i])
           /\ \A c \in UEscapes(out, 1) : c >= 0 /\ c < 32]_vars

\* ["\u0001Å"] has been written: an escape for U+0001, two raw bytes
\* for U+00C5.
RawNonAsciiWitness ==
  /\ pc = "idle"
  /\ result = "returned"
  /\ fs[filename].data = <<91, 34, 92, 117, 48, 48, 48, 49, 195, 133, 34, 93>>

\* C5: a call whose destination directory does not exist ends at once with
\* FileNotFoundError, and leaves every file and every handle as it was.
MissingDirFails ==
  [][(pc = "idle" /\ dirState[DirOf(filename')] = "missing") =>
       /\ pc' = "idle"
       /\ result' = "FileNotFoundError"
       /\ fs' = fs
       /\ handles' = handles]_vars

\* A call into the missing directory has failed and made no file there.
MissingDirWitness ==
  /\ pc = "idle"
  /\ filename = "nodir/out.json"
  /\ result = "FileNotFoundError"
  /\ ~fs["nodir/out.json"].exists
  /\ fs[DefaultFilename].exists

\* C6: when the module-level code has ended, the list has been built and the
\* converter has been called exactly once, with the list and the fixed path;
\* and it is never called while the list is unbuilt.
ModuleLinear ==
  /\ mpc = "exited" =>
       /\ countries = Defined(CountriesLiteral)
       /\ mcalls = 1
       /\ filename = ScriptFilename
  /\ mcalls > 0 => countries = Defined(CountriesLiteral)

\* C7: a call that has opened its destination and whose elements are all
\* strings, one with a lone surrogate, ends with UnicodeEncodeError at the
\* caller: nothing catches it, and the call does not return normally.
SurrogateFails ==
  [][(pc = "exit" /\ pc' = "idle" /\ AllStr(lst)
      /\ \E i \in 1..Len(AllChars(lst)) : IsSurrogate(AllChars(lst)[i])) =>
       result' = "UnicodeEncodeError" /\ result' # "returned"]_vars

\* Such a call is about to leave the with block: the encoding has raised.
SurrogateWitness ==
  /\ pc = "exit"
  /\ exc = "UnicodeEncodeError"
  /\ AllStr(lst)
  /\ \E i \in 1..Len(AllChars(lst)) : IsSurrogate(AllChars(lst)[i])

\* C8: no step of a call changes a file other than the destination, and no
\* step inside a call changes the input sequence.
FrameOnly ==
  [][/\ \A p \in Paths \ {filename'} : fs'[p] = fs[p]
     /\ (pc # "idle" /\ pc' # "idle") => lst' = lst]_vars

\* A call has written the default destination and the other file is as it
\* was.
FrameWitness ==
  /\ pc = "idle"
  /\ result = "returned"
  /\ filename = DefaultFilename
  /\ Len(fs[DefaultFilename].data) > 2
  /\ fs["notes.txt"] = File(OldContents)

\* C9: outside a call no handle is open, on whichever path the call ended;
\* inside a call the only handle is the destination's.
HandleReleased ==
  /\ pc = "idle" => handles = {}
  /\ pc # "idle" => handles = {filename}

\* A call has ended with the failure of a write, and no handle is open.
HandleReleasedWitness ==
  /\ pc = "idle"
  /\ result = "OSError"
  /\ handles = {}

\* C10: the destination is open and truncated before the input is encoded,
\* and a call that ended with a failure of the encoding leaves it existing
\* and empty.
TruncatedFirst ==
  /\ pc \in {"dumps", "encode"} =>
       filename \in handles /\ fs[filename] = File(<<>>)
  /\ (pc = "idle" /\ result \in {"TypeError", "UnicodeEncodeError"}) =>
       fs[filename] = File(<<>>)

\* The encoding has failed on a destination that held contents.
TruncatedFirstWitness ==
  /\ pc = "exit"
  /\ exc = "UnicodeEncodeError"
  /\ prior = "present"
  /\ fs[filename] = File(<<>>)

====
